---------------------------- MODULE Spec2Model ----------------------------
(***************************************************************************)
(* Model of mammal_scientific-name.py: the species-name validator          *)
(* (is_valid_species_name), the two loaders (load_nodes, load_names), the  *)
(* breadth-first descendant collector (get_all_descendants) and the batch  *)
(* pipeline (main).  Strings are sequences of one-character strings, so    *)
(* that lower-casing, regular-expression search, whitespace splitting and  *)
(* lexicographic sorting are computed character by character.              *)
(***************************************************************************)
EXTENDS Integers, Sequences, FiniteSets, TLC

VARIABLES
    name,                  \* argument of is_valid_species_name
    result,                \* its return value ("none" before the call)
    nodes_file,            \* taxdump/nodes.dmp: sequence of lines, each a sequence of fields
    names_file,            \* taxdump/names.dmp: sequence of lines, each a sequence of fields
    parent_dict,           \* tax_id -> parent_tax_id
    rank_dict,             \* tax_id -> rank
    children_dict,         \* parent_tax_id -> list of child tax_ids
    names_dict,            \* tax_id -> scientific name
    tax_id,                \* argument of get_all_descendants
    queue,                 \* frontier of get_all_descendants
    descendants,           \* result set of get_all_descendants
    enqueued,              \* history: how often each identifier was put on queue
    expanded,              \* history: how often each identifier was popped from queue
    all_mammal_species,    \* main: names of all species-rank descendants
    valid_mammal_species,  \* main: the names that passed the validator
    output_file,           \* contents of mammal_scientific-nameb.txt (NoFile if absent)
    runs,                  \* number of completed runs of main
    pc                     \* control position

vars == <<name, result, nodes_file, names_file, parent_dict, rank_dict,
          children_dict, names_dict, tax_id, queue, descendants, enqueued,
          expanded, all_mammal_species, valid_mammal_species, output_file,
          runs, pc>>

validatorVars == <<name, result>>
fileVars == <<nodes_file, names_file>>
loadVars == <<parent_dict, rank_dict, children_dict, names_dict>>
bfsVars == <<tax_id, queue, descendants, enqueued, expanded>>
mainVars == <<all_mammal_species, valid_mammal_species, output_file, runs>>

(***************************************************************************)
(* Characters                                                              *)
(***************************************************************************)
AlphaU == <<"A","B","C","D","E","F","G","H","I","J","K","L","M",
            "N","O","P","Q","R","S","T","U","V","W","X","Y","Z">>
AlphaL == <<"a","b","c","d","e","f","g","h","i","j","k","l","m",
            "n","o","p","q","r","s","t","u","v","w","x","y","z">>
Digit == <<"0","1","2","3","4","5","6","7","8","9">>

\* the characters in code point order: space ( ) - . 0-9 : A-Z _ a-z
CharTable == <<" ", "(", ")", "-", ".">> \o Digit \o <<":">> \o AlphaU
             \o <<"_">> \o AlphaL

Range(s) == {s[i] : i \in 1..Len(s)}

UpperSet == Range(AlphaU)
LowerSet == Range(AlphaL)
DigitSet == Range(Digit)
CharSet == Range(CharTable)
WordSet == UpperSet \cup LowerSet \cup DigitSet \cup {"_"}
Whitespace == {" "}

\* ord(c): position in code point order
Ord == [c \in CharSet |-> CHOOSE i \in 1..Len(CharTable) : CharTable[i] = c]

\* str.lower() on one character
LowerChar == [c \in CharSet |->
                 IF c \in UpperSet
                 THEN AlphaL[CHOOSE i \in 1..26 : AlphaU[i] = c]
                 ELSE c]

\* str.lower()
Lower(s) == [i \in 1..Len(s) |-> LowerChar[s[i]]]

\* str.isupper() / str.islower() on one character
IsUpper(c) == c \in UpperSet
IsLower(c) == c \in LowerSet

(***************************************************************************)
(* Regular expressions.  A pattern is a record                             *)
(*   [pre |-> leading \b, alts |-> set of atom sequences, post |-> trailing \b] *)
(* and an atom [set, min, max] matches between min and max consecutive     *)
(* characters of set.                                                      *)
(***************************************************************************)
\* {lo,hi} and {lo,} quantifiers; open means no upper limit
Rep(S, lo, hi) == [set |-> S, min |-> lo, max |-> hi, open |-> FALSE]
RepAtLeast(S, lo) == [set |-> S, min |-> lo, max |-> lo, open |-> TRUE]
Ch(c) == Rep({c}, 1, 1)
Lit(s) == [i \in 1..Len(s) |-> Ch(s[i])]

\* \b at position i (between s[i-1] and s[i])
Boundary(s, i) ==
    LET before == i > 1 /\ s[i-1] \in WordSet
        after  == i <= Len(s) /\ s[i] \in WordSet
    IN  before # after

\* number of consecutive characters of S in s from position i
RECURSIVE RunLen(_, _, _)
RunLen(s, i, S) ==
    IF i > Len(s) \/ s[i] \notin S THEN 0 ELSE 1 + RunLen(s, i + 1, S)

Min(a, b) == IF a < b THEN a ELSE b

\* positions at which a match of atoms[k..] starting at i can end
RECURSIVE MatchEnds(_, _, _, _)
MatchEnds(atoms, k, s, i) ==
    IF k > Len(atoms) THEN {i}
    ELSE LET a == atoms[k]
             run == RunLen(s, i, a.set)
         IN  UNION {MatchEnds(atoms, k + 1, s, i + n) :
                        n \in a.min..(IF a.open THEN run ELSE Min(a.max, run))}

\* re.search(pattern, s) is not None
ReSearch(p, s) ==
    \E i \in 1..(Len(s) + 1) :
        /\ p.pre => Boundary(s, i)
        /\ \E alt \in p.alts : \E e \in MatchEnds(alt, 1, s, i) :
               p.post => Boundary(s, e)

\* the same search with re.IGNORECASE: both sides compared lower-cased
IgnoreCase(p) ==
    [pre |-> p.pre, post |-> p.post,
     alts |-> {[k \in 1..Len(alt) |->
                   [set |-> {LowerChar[c] : c \in alt[k].set},
                    min |-> alt[k].min, max |-> alt[k].max,
                    open |-> alt[k].open]] : alt \in p.alts}]

ReSearchI(p, s) == ReSearch(IgnoreCase(p), Lower(s))

(***************************************************************************)
(* exclude_patterns of is_valid_species_name                               *)
(***************************************************************************)
pat_sp == [pre |-> TRUE, alts |-> {Lit(<<"s","p",".">>)}, post |-> FALSE]
pat_cf == [pre |-> TRUE, alts |-> {Lit(<<"c","f",".">>)}, post |-> FALSE]
pat_aff == [pre |-> TRUE, alts |-> {Lit(<<"a","f","f",".">>)}, post |-> FALSE]
pat_x == [pre |-> TRUE, alts |-> {Lit(<<"x">>)}, post |-> TRUE]
pat_isolate ==
    [pre |-> TRUE, alts |-> {Lit(<<"i","s","o","l","a","t","e">>)}, post |-> TRUE]
pat_haplotype ==
    [pre |-> TRUE, alts |-> {Lit(<<"h","a","p","l","o","t","y","p","e">>)},
     post |-> TRUE]
pat_gen_dot == [pre |-> TRUE, alts |-> {Lit(<<"g","e","n",".">>)}, post |-> FALSE]
pat_gen == [pre |-> TRUE, alts |-> {Lit(<<"g","e","n">>)}, post |-> TRUE]
pat_environmental ==
    [pre |-> TRUE,
     alts |-> {Lit(<<"e","n","v","i","r","o","n","m","e","n","t","a","l">>)},
     post |-> TRUE]
pat_mixed == [pre |-> TRUE, alts |-> {Lit(<<"m","i","x","e","d">>)}, post |-> TRUE]
pat_indet ==
    [pre |-> TRUE, alts |-> {Lit(<<"i","n","d","e","t",".">>)}, post |-> FALSE]
pat_bold == [pre |-> FALSE, alts |-> {Lit(<<"b","o","l","d",":">>)}, post |-> FALSE]
pat_paren == [pre |-> FALSE, alts |-> {<<Rep({"(", ")"}, 1, 1)>>}, post |-> FALSE]

pat_digits_5 == [pre |-> FALSE, alts |-> {<<Rep(DigitSet, 5, 5)>>}, post |-> FALSE]

pat_digits == [pre |-> FALSE, alts |-> {<<Rep(DigitSet, 4, 4)>>}, post |-> FALSE]
pat_code ==
    [pre |-> FALSE,
     alts |-> {<<RepAtLeast(UpperSet, 2), Ch("-"), Rep(DigitSet, 4, 4)>>},
     post |-> FALSE]
pat_catalog ==
    [pre |-> FALSE,
     alts |-> {<<RepAtLeast(UpperSet, 3), RepAtLeast(DigitSet, 1)>>},
     post |-> FALSE]
pat_complex_group ==
    [pre |-> TRUE,
     alts |-> {Lit(<<"c","o","m","p","l","e","x">>), Lit(<<"g","r","o","u","p">>)},
     post |-> TRUE]

exclude_patterns ==
    <<pat_sp, pat_cf, pat_aff, pat_x, pat_isolate, pat_haplotype, pat_gen_dot,
      pat_gen, pat_environmental, pat_mixed, pat_indet, pat_bold, pat_paren,
      pat_digits, pat_code, pat_catalog, pat_complex_group>>

\* for pattern in exclude_patterns: if re.search(pattern, name_lower): return False
Excluded(n) ==
    LET name_lower == Lower(n)
    IN  \E k \in 1..Len(exclude_patterns) : ReSearch(exclude_patterns[k], name_lower)

\* str.split(): the maximal runs of non-whitespace characters, in order
RECURSIVE SplitFrom(_, _)
SplitFrom(s, i) ==
    IF i > Len(s) THEN << >>
    ELSE IF s[i] \in Whitespace THEN SplitFrom(s, i + 1)
    ELSE LET n == RunLen(s, i, CharSet \ Whitespace)
         IN  <<SubSeq(s, i, i + n - 1)>> \o SplitFrom(s, i + n)

Split(s) == SplitFrom(s, 1)

\* the structural rules on the original-case name
WordsOk(n) ==
    LET words == Split(n)
    IN  /\ ~(Len(words) < 2 \/ Len(words) > 3)
        /\ IsUpper(words[1][1])
        /\ \A k \in 2..Len(words) : IsLower(words[k][1])

is_valid_species_name(n) == ~Excluded(n) /\ WordsOk(n)

(***************************************************************************)
(* Inputs of the validator: names assembled from at most MaxChunks pieces  *)
(***************************************************************************)
MaxChunks == 3

Chunks ==
    {<<"M","u","s"," ","l","e","o">>, <<"M","u","s"," ">>, <<"l","e","o">>, <<" ">>, <<"s","p",".">>, <<"x">>,
     <<"(">>, <<"1","2">>, <<"3","4","5">>, <<"A","B","C">>,
     <<"b","o","l","d",":">>, <<"g","e","n">>, <<"-">>, <<"L","e","o">>,
     <<"c","f",".">>, <<"m","i","x","e","d">>}

RECURSIVE Concat(_)
Concat(ss) == IF ss = << >> THEN << >> ELSE Head(ss) \o Concat(Tail(ss))

Names == UNION {{Concat(ss) : ss \in [1..k -> Chunks]} : k \in 0..MaxChunks}

NoDicts ==
    /\ nodes_file = << >> /\ names_file = << >>
    /\ parent_dict = << >> /\ rank_dict = << >>
    /\ children_dict = << >> /\ names_dict = << >>

NoBfs ==
    /\ tax_id = 0 /\ queue = << >> /\ descendants = {}
    /\ enqueued = << >> /\ expanded = << >>

NoMain ==
    /\ all_mammal_species = << >> /\ valid_mammal_species = << >>
    /\ output_file = << >> /\ runs = 0

InitValidate ==
    /\ name \in Names
    /\ result = "none"
    /\ pc = "validate"
    /\ NoDicts /\ NoBfs /\ NoMain

\* one call of is_valid_species_name(name)
Validate ==
    /\ pc = "validate"
    /\ result' = is_valid_species_name(name)
    /\ pc' = "validated"
    /\ UNCHANGED <<name, fileVars, loadVars, bfsVars, mainVars>>

NextValidate == Validate

SpecValidate == InitValidate /\ [][NextValidate]_vars

(***************************************************************************)
(* Properties of the validator                                             *)
(***************************************************************************)
\* lengths of the maximal runs of consecutive digits of s
DigitRuns(s) ==
    {RunLen(s, i, DigitSet) :
        i \in {j \in 1..Len(s) : s[j] \in DigitSet /\ (j = 1 \/ s[j-1] \notin DigitSet)}}

\* some rule of the list other than the digit rule matches the lower-cased name
OtherRuleMatches(n) ==
    \E k \in 1..Len(exclude_patterns) :
        /\ exclude_patterns[k] # pat_digits
        /\ ReSearch(exclude_patterns[k], Lower(n))

\* C1: a name is accepted iff it has 2 or 3 whitespace-separated words, the
\* first starting with an uppercase letter and the others with a lowercase
\* letter, and no pattern of the rule list occurs in it, each pattern being
\* matched case-insensitively.
C1_ValidIffRulesIgnoringCase ==
    pc = "validated" =>
        (result <=>
            /\ Len(Split(name)) \in {2, 3}
            /\ IsUpper(Split(name)[1][1])
            /\ \A k \in 2..Len(Split(name)) : IsLower(Split(name)[k][1])
            /\ \A k \in 1..Len(exclude_patterns) :
                   ~ReSearchI(exclude_patterns[k], name))

\* C10 (as stated): the digit rule matches exactly the names that contain a
\* run of exactly 4 digits; a name whose digit runs are all shorter or longer
\* than 4 is accepted when it passes every other rule.
C10_ExactlyFourDigits ==
    pc = "validated" =>
        /\ ReSearch(pat_digits, Lower(name)) <=> 4 \in DigitRuns(name)
        /\ (4 \notin DigitRuns(name) /\ ~OtherRuleMatches(name) /\ WordsOk(name))
               => result = TRUE

\* C10 (amended): the digit rule matches exactly the names that contain a run
\* of at least 4 consecutive digits; such a name is rejected, and a name whose
\* digit runs are all shorter than 4 is accepted when it passes every other rule.
C10_AtLeastFourDigits ==
    pc = "validated" =>
        LET long == \E r \in DigitRuns(name) : r >= 4
        IN  /\ ReSearch(pat_digits, Lower(name)) <=> long
            /\ long => result = FALSE
            /\ (~long /\ ~OtherRuleMatches(name) /\ WordsOk(name)) => result = TRUE

\* a name that only the digit rule rejects, because of a run of 5 digits
C10_Witness ==
    /\ pc = "validated"
    /\ DigitRuns(name) = {5}
    /\ ~OtherRuleMatches(name) /\ WordsOk(name)
    /\ result = FALSE

(***************************************************************************)
(* get_all_descendants                                                     *)
(***************************************************************************)
MaxNode == 3
MaxEdges == 3
MaxCount == 2

Nodes == 1..MaxNode

EmptyDict == [k \in {} |-> 0]

\* d[k] = v
Put(d, k, v) == [x \in DOMAIN d \cup {k} |-> IF x = k THEN v ELSE d[x]]

\* defaultdict(list): d[k].append(v)
AppendTo(d, k, v) == Put(d, k, IF k \in DOMAIN d THEN Append(d[k], v) ELSE <<v>>)

\* the same loop that records the children but does not put them on the queue
ForChildren_noenqueue(children, i, q, d) ==
    [queue |-> q, descendants |-> d \cup {children[k] : k \in i..Len(children)}]

\* for child in children_dict[current]: the loop body applied from index i on
RECURSIVE ForChildren(_, _, _, _)
ForChildren(children, i, q, d) ==
    IF i > Len(children) THEN [queue |-> q, descendants |-> d]
    ELSE LET child == children[i]
         IN  IF child \notin d
             THEN ForChildren(children, i + 1, Append(q, child), d \cup {child})
             ELSE ForChildren(children, i + 1, q, d)

\* an iteration that reads the head of the queue without removing it
BfsIter_nopop(q, d, ch) ==
    LET current == Head(q)
    IN  IF current \in DOMAIN ch
        THEN ForChildren(ch[current], 1, q, d)
        ELSE [queue |-> q, descendants |-> d]

\* one iteration of `while queue:`
BfsIter(q, d, ch) ==
    LET current == Head(q)
        rest == Tail(q)
    IN  IF current \in DOMAIN ch
        THEN ForChildren(ch[current], 1, rest, d)
        ELSE [queue |-> rest, descendants |-> d]

\* the whole loop, run to completion
RECURSIVE BfsLoop(_, _, _)
BfsLoop(q, d, ch) ==
    IF q = << >> THEN d
    ELSE LET r == BfsIter(q, d, ch) IN BfsLoop(r.queue, r.descendants, ch)

get_all_descendants(root, ch) == BfsLoop(<<root>>, {}, ch)

\* all children-adjacency mappings over Nodes that at most k parent links
\* build (a list may repeat an identifier, a key may be absent)
RECURSIVE MappingsOf(_)
MappingsOf(k) ==
    IF k = 0 THEN {EmptyDict}
    ELSE LET M == MappingsOf(k - 1)
         IN  M \cup {AppendTo(m, p, c) : m \in M, p \in Nodes, c \in Nodes}

Mappings == MappingsOf(MaxEdges)

\* number of occurrences of x in s
Count(s, x) == Cardinality({i \in 1..Len(s) : s[i] = x})

NoValidator == name = << >> /\ result = "none"

InitBfs ==
    /\ children_dict \in Mappings
    /\ tax_id \in Nodes
    /\ queue = << >>
    /\ descendants = {}
    /\ enqueued = [n \in Nodes |-> 0]
    /\ expanded = [n \in Nodes |-> 0]
    /\ pc = "bfs_call"
    /\ nodes_file = << >> /\ names_file = << >>
    /\ parent_dict = EmptyDict /\ rank_dict = EmptyDict /\ names_dict = EmptyDict
    /\ NoValidator /\ NoMain

\* descendants = set(); queue = [tax_id]
BfsEnter ==
    /\ pc = "bfs_call"
    /\ descendants' = {}
    /\ queue' = <<tax_id>>
    /\ enqueued' = [enqueued EXCEPT ![tax_id] = 1]
    /\ pc' = "bfs_loop"
    /\ UNCHANGED <<validatorVars, fileVars, loadVars, tax_id, expanded, mainVars>>

\* one iteration of the while loop: pop the head, scan its children
BfsStep ==
    /\ pc = "bfs_loop"
    /\ queue # << >>
    /\ LET r == BfsIter(queue, descendants, children_dict)
           added == SubSeq(r.queue, Len(queue), Len(r.queue))
       IN  /\ queue' = r.queue
           /\ descendants' = r.descendants
           /\ enqueued' = [n \in Nodes |-> Min(enqueued[n] + Count(added, n), MaxCount)]
           /\ expanded' = [expanded EXCEPT ![Head(queue)] = Min(@ + 1, MaxCount)]
    /\ UNCHANGED <<validatorVars, fileVars, loadVars, tax_id, mainVars, pc>>

\* the loop ends on an empty queue: return descendants
BfsReturn ==
    /\ pc = "bfs_loop"
    /\ queue = << >>
    /\ pc' = "bfs_done"
    /\ UNCHANGED <<validatorVars, fileVars, loadVars, bfsVars, mainVars>>

NextBfs == BfsEnter \/ BfsStep \/ BfsReturn

SpecBfs == InitBfs /\ [][NextBfs]_vars

\* the loop is the only thing the call does: it is never suspended
FairSpecBfs == SpecBfs /\ WF_vars(NextBfs)

\* identifiers listed as a child of p
ChildrenOf(p, ch) == IF p \in DOMAIN ch THEN Range(ch[p]) ELSE {}

\* least set containing S and closed under taking children
RECURSIVE ChildClosure(_, _)
ChildClosure(S, ch) ==
    LET T == S \cup UNION {ChildrenOf(p, ch) : p \in S}
    IN  IF T = S THEN S ELSE ChildClosure(T, ch)

\* identifiers from which a non-empty chain of parent links leads to root
BelowRoot(root, ch) == ChildClosure(ChildrenOf(root, ch), ch)

\* C2: an identifier other than the root is in the returned set iff a
\* non-empty chain of parent links leads from it up to the root.
C2_DescendantsAreReachable ==
    pc = "bfs_done" =>
        \A n \in Nodes \ {tax_id} :
            n \in descendants <=> n \in BelowRoot(tax_id, children_dict)

\* a grandchild that is not a direct child of the root was collected
C2_Witness ==
    /\ pc = "bfs_done"
    /\ \E n \in descendants \ {tax_id} : n \notin ChildrenOf(tax_id, children_dict)

\* C3: the returned set never contains the root identifier, also when the
\* root is its own child or lies on a cycle of parent links.
C3_RootNotInResult == pc = "bfs_done" => tax_id \notin descendants

\* C8: during one call every identifier is placed on the queue at most once
\* (the initial placement of the root included) and expanded at most once.
C8_EnqueuedAtMostOnce ==
    \A n \in Nodes : enqueued[n] <= 1 /\ expanded[n] <= 1

\* C9: for every finite mapping, cyclic or not, the call eventually empties
\* its queue and returns.
C9_Terminates == <>(pc = "bfs_done")

\* a call on a mapping where the root lies on a cycle has returned
C9_Witness ==
    /\ pc = "bfs_done"
    /\ tax_id \in BelowRoot(tax_id, children_dict)

(***************************************************************************)
(* Input files.  A line is the list of fields that                         *)
(* line.strip().split('\t|\t') yields; an identifier field is the text of   *)
(* a number or some other text; a name-class field of a 4-field line ends  *)
(* with the line's closing tab and pipe, written "|" here.                 *)
(***************************************************************************)
MAMMALIA_TAX_ID == 40674

MaxNodeLines == 2
MaxNameLines == 2
MaxRuns == 2

\* int(text): defined on the texts of numbers, a ValueError otherwise
IsInt(f) == f \in {"1", "2", "40674"}
IntOf(f) == CASE f = "1" -> 1 [] f = "2" -> 2 [] f = "40674" -> 40674

\* text.strip().rstrip('\t|') on a name-class field
StripClass(f) ==
    CASE f = "scientific name|" -> "scientific name"
      [] f = "synonym|" -> "synonym"
      [] OTHER -> f

MusLeo == <<"M","u","s"," ","l","e","o">>
BosBos == <<"B","o","s"," ","b","o","s">>
MusSp == <<"M","u","s"," ","s","p",".">>
Unknown == <<"U","n","k","n","o","w","n">>
FileNames == {MusLeo, BosBos, MusSp}

NodeLines ==
    {<<"1", "40674", "species">>, <<"2", "40674", "species">>,
     <<"2", "1", "species">>, <<"1", "40674", "genus">>, <<"1", "1", "species">>,
     <<"1", "40674">>, <<"1", "x", "species">>}

NameLines ==
    {<<"1", MusLeo, "", "scientific name|">>, <<"2", MusLeo, "", "scientific name|">>,
     <<"2", BosBos, "", "scientific name|">>, <<"1", MusSp, "", "scientific name|">>,
     <<"2", BosBos, "", "synonym|">>,
     <<"1", MusLeo, "">>, <<"x", MusLeo, "", "synonym|">>}

FilesOf(lines, n) == UNION {[1..k -> lines] : k \in 0..n}

NoFile == <<"<absent>">>
StaleFile == <<MusSp>>

Failed == [ok |-> FALSE]

\* the loop of load_nodes from line i on; an IndexError or ValueError ends it
RECURSIVE load_nodes(_, _, _, _, _)
load_nodes(file, i, pd, rd, cd) ==
    IF i > Len(file)
    THEN [ok |-> TRUE, parent_dict |-> pd, rank_dict |-> rd, children_dict |-> cd]
    ELSE LET parts == file[i]
         IN  IF ~IsInt(parts[1]) THEN Failed
             ELSE IF Len(parts) < 2 THEN Failed
             ELSE IF ~IsInt(parts[2]) THEN Failed
             ELSE IF Len(parts) < 3 THEN Failed
             ELSE LET id == IntOf(parts[1])
                      parent_tax_id == IntOf(parts[2])
                      rank == parts[3]
                  IN  load_nodes(file, i + 1, Put(pd, id, parent_tax_id),
                                 Put(rd, id, rank), AppendTo(cd, parent_tax_id, id))

\* a loader that skips a line it cannot use instead of raising
RECURSIVE load_names_skipping(_, _, _)
load_names_skipping(file, i, nd) ==
    IF i > Len(file) THEN [ok |-> TRUE, names_dict |-> nd]
    ELSE LET parts == file[i]
         IN  IF ~IsInt(parts[1]) \/ Len(parts) < 4
             THEN load_names_skipping(file, i + 1, nd)
             ELSE load_names_skipping(file, i + 1,
                      IF StripClass(parts[4]) = "scientific name"
                      THEN Put(nd, IntOf(parts[1]), parts[2]) ELSE nd)

\* the loop of load_names from line i on
RECURSIVE load_names(_, _, _)
load_names(file, i, nd) ==
    IF i > Len(file) THEN [ok |-> TRUE, names_dict |-> nd]
    ELSE LET parts == file[i]
         IN  IF ~IsInt(parts[1]) THEN Failed
             ELSE IF Len(parts) < 2 THEN Failed
             ELSE IF Len(parts) < 4 THEN Failed
             ELSE LET id == IntOf(parts[1])
                      name_class == StripClass(parts[4])
                  IN  load_names(file, i + 1,
                          IF name_class = "scientific name"
                          THEN Put(nd, id, parts[2]) ELSE nd)

(***************************************************************************)
(* Sorting: list.sort() on strings compares code points lexicographically  *)
(***************************************************************************)
RECURSIVE StrLess(_, _)
StrLess(a, b) ==
    IF b = << >> THEN FALSE
    ELSE IF a = << >> THEN TRUE
    ELSE IF Ord[Head(a)] # Ord[Head(b)] THEN Ord[Head(a)] < Ord[Head(b)]
    ELSE StrLess(Tail(a), Tail(b))

RECURSIVE Insert(_, _)
Insert(x, s) ==
    IF s = << >> THEN <<x>>
    ELSE IF StrLess(x, Head(s)) THEN <<x>> \o s
    ELSE <<Head(s)>> \o Insert(x, Tail(s))

RECURSIVE InsertionSort(_)
InsertionSort(s) == IF s = << >> THEN << >> ELSE Insert(Head(s), InsertionSort(Tail(s)))

\* a "sort" that leaves the list in the order it was built
ListSort_none(s) == s

\* a sort that also drops repeated names, as sorted(set(s)) would
RECURSIVE ListSort_unique(_)
ListSort_unique(s) ==
    IF s = << >> THEN << >>
    ELSE LET rest == ListSort_unique(Tail(s))
         IN  IF Head(s) \in Range(rest) THEN rest ELSE Insert(Head(s), rest)

\* list.sort()
ListSort(s) == InsertionSort(s)

(***************************************************************************)
(* main                                                                    *)
(***************************************************************************)
\* the orders in which `for tax_id in descendants` can visit the set
Orders(S) == {o \in [1..Cardinality(S) -> S] : Range(o) = S}

\* dict.get(k, default)
Get(d, k, default) == IF k \in DOMAIN d THEN d[k] ELSE default

\* a loop that validates every descendant's name, species or not
RECURSIVE FilterLoop_anyrank(_, _, _, _, _, _)
FilterLoop_anyrank(order, i, rd, nd, all, valid) ==
    IF i > Len(order) THEN [all |-> all, valid |-> valid]
    ELSE LET n == Get(nd, order[i], Unknown)
         IN  FilterLoop_anyrank(order, i + 1, rd, nd,
                 IF Get(rd, order[i], "") = "species" THEN Append(all, n) ELSE all,
                 IF is_valid_species_name(n) THEN Append(valid, n) ELSE valid)

\* the loop over the descendants, visiting them in the given order
RECURSIVE FilterLoop(_, _, _, _, _, _)
FilterLoop(order, i, rd, nd, all, valid) ==
    IF i > Len(order) THEN [all |-> all, valid |-> valid]
    ELSE IF Get(rd, order[i], "") = "species"
         THEN LET n == Get(nd, order[i], Unknown)
              IN  FilterLoop(order, i + 1, rd, nd, Append(all, n),
                             IF is_valid_species_name(n) THEN Append(valid, n)
                             ELSE valid)
         ELSE FilterLoop(order, i + 1, rd, nd, all, valid)

InitMain ==
    /\ nodes_file \in FilesOf(NodeLines, MaxNodeLines)
    /\ names_file \in FilesOf(NameLines, MaxNameLines)
    /\ output_file \in {NoFile, StaleFile}
    /\ parent_dict = EmptyDict /\ rank_dict = EmptyDict
    /\ children_dict = EmptyDict /\ names_dict = EmptyDict
    /\ tax_id = MAMMALIA_TAX_ID
    /\ queue = << >> /\ descendants = {}
    /\ enqueued = << >> /\ expanded = << >>
    /\ all_mammal_species = << >> /\ valid_mammal_species = << >>
    /\ runs = 0
    /\ pc = "load_nodes"
    /\ NoValidator

\* parent_dict, rank_dict, children_dict = load_nodes(nodes_file)
LoadNodes ==
    /\ pc = "load_nodes"
    /\ LET r == load_nodes(nodes_file, 1, EmptyDict, EmptyDict, EmptyDict)
       IN  IF r.ok
           THEN /\ parent_dict' = r.parent_dict
                /\ rank_dict' = r.rank_dict
                /\ children_dict' = r.children_dict
                /\ pc' = "load_names"
           ELSE /\ pc' = "aborted"
                /\ UNCHANGED <<parent_dict, rank_dict, children_dict>>
    /\ UNCHANGED <<validatorVars, fileVars, names_dict, bfsVars, mainVars>>

\* names_dict = load_names(names_file)
LoadNames ==
    /\ pc = "load_names"
    /\ LET r == load_names(names_file, 1, EmptyDict)
       IN  IF r.ok
           THEN names_dict' = r.names_dict /\ pc' = "collect"
           ELSE pc' = "aborted" /\ UNCHANGED names_dict
    /\ UNCHANGED <<validatorVars, fileVars, parent_dict, rank_dict, children_dict,
                   bfsVars, mainVars>>

\* descendants = get_all_descendants(MAMMALIA_TAX_ID, children_dict)
Collect ==
    /\ pc = "collect"
    /\ descendants' = get_all_descendants(MAMMALIA_TAX_ID, children_dict)
    /\ pc' = "filter"
    /\ UNCHANGED <<validatorVars, fileVars, loadVars, tax_id, queue, enqueued,
                   expanded, mainVars>>

\* the species filter and the two sorts
FilterAndSort ==
    /\ pc = "filter"
    /\ \E order \in Orders(descendants) :
           LET r == FilterLoop(order, 1, rank_dict, names_dict, << >>, << >>)
           IN  /\ all_mammal_species' = ListSort(r.all)
               /\ valid_mammal_species' = ListSort(r.valid)
    /\ pc' = "write"
    /\ UNCHANGED <<validatorVars, fileVars, loadVars, bfsVars, output_file, runs>>

\* with open(output_file, 'w') as f: one line per valid name
Write ==
    /\ pc = "write"
    /\ output_file' = valid_mammal_species
    /\ runs' = runs + 1
    /\ pc' = "done"
    /\ UNCHANGED <<validatorVars, fileVars, loadVars, bfsVars, all_mammal_species,
                   valid_mammal_species>>

\* the script is started again on the same input files
Rerun ==
    /\ pc = "done"
    /\ runs < MaxRuns
    /\ parent_dict' = EmptyDict /\ rank_dict' = EmptyDict
    /\ children_dict' = EmptyDict /\ names_dict' = EmptyDict
    /\ descendants' = {}
    /\ all_mammal_species' = << >> /\ valid_mammal_species' = << >>
    /\ pc' = "load_nodes"
    /\ UNCHANGED <<validatorVars, fileVars, tax_id, queue, enqueued, expanded,
                   output_file, runs>>

NextMain == LoadNodes \/ LoadNames \/ Collect \/ FilterAndSort \/ Write \/ Rerun

SpecMain == InitMain /\ [][NextMain]_vars

(***************************************************************************)
(* Properties of main                                                      *)
(***************************************************************************)
\* a node line with fewer than 3 fields or a non-integer identifier or parent
BadNodeLine(parts) ==
    \/ Len(parts) < 3
    \/ ~IsInt(parts[1])
    \/ ~IsInt(parts[2])

\* a name line, of any name class, with fewer than 4 fields or a non-integer
\* identifier
BadNameLine(parts) == Len(parts) < 4 \/ ~IsInt(parts[1])

Malformed ==
    \/ \E i \in 1..Len(nodes_file) : BadNodeLine(nodes_file[i])
    \/ \E i \in 1..Len(names_file) : BadNameLine(names_file[i])

\* C4: when some line of either input file is malformed, the run never gets
\* past loading (it aborts there) and the output file is neither created nor
\* overwritten.
C4_MalformedInputAborts ==
    [][Malformed => (pc' \in {"load_names", "aborted"} /\ output_file' = output_file)]_vars

\* the node file is fine, a synonym line of the name file has a bad
\* identifier, the run has aborted and the old output file is still there
C4_Witness ==
    /\ pc = "aborted"
    /\ \A i \in 1..Len(nodes_file) : ~BadNodeLine(nodes_file[i])
    /\ \E i \in 1..Len(names_file) :
           /\ Len(names_file[i]) = 4
           /\ ~IsInt(names_file[i][1])
           /\ StripClass(names_file[i][4]) = "synonym"
    /\ output_file = StaleFile

IsSorted(s) == \A i \in 1..(Len(s) - 1) : ~StrLess(s[i + 1], s[i])

\* the descendants of species rank whose name (or "Unknown") is n
SpeciesNamed(n) ==
    {id \in descendants :
        /\ id \in DOMAIN rank_dict /\ rank_dict[id] = "species"
        /\ (IF id \in DOMAIN names_dict THEN names_dict[id] ELSE Unknown) = n}

\* C5: on a completed run the output file holds exactly one line per
\* species-rank descendant whose name (or "Unknown") passes the validator,
\* equal names of different identifiers kept, in ascending order.
C5_OutputIsSortedValidSpecies ==
    pc = "done" =>
        /\ IsSorted(output_file)
        /\ \A n \in FileNames \cup {Unknown} \cup Range(output_file) :
               Count(output_file, n) =
                   IF is_valid_species_name(n) THEN Cardinality(SpeciesNamed(n)) ELSE 0

\* two species share a valid name and both lines were written
C5_Witness ==
    /\ pc = "done"
    /\ Len(output_file) = 2
    /\ output_file[1] = output_file[2]

\* C6: a second run on the same input files writes the same output file as
\* the first, whatever order the descendant set is iterated in.
C6_RerunWritesSameFile ==
    [][(pc = "write" /\ runs >= 1) => output_file' = output_file]_vars

\* a second run has rewritten a file of two different names
C6_Witness ==
    /\ pc = "done"
    /\ runs = 2
    /\ Len(output_file) = 2
    /\ output_file[1] # output_file[2]

\* C7 (as stated): the written names are a strict subset of the all-species
\* names: each occurs among them and some all-species name was not written.
C7_StrictSubset ==
    pc = "done" =>
        /\ Range(output_file) \subseteq Range(all_mammal_species)
        /\ \E n \in Range(all_mammal_species) : n \notin Range(output_file)

\* C7 (amended): every written name occurs among the all-species names, no
\* more often than there; the inclusion need not be strict.
C7_Subset ==
    pc = "done" =>
        \A n \in Range(output_file) :
            /\ n \in Range(all_mammal_species)
            /\ Count(output_file, n) <= Count(all_mammal_species, n)

\* every species name was valid: the output equals the all-species list
C7_Witness ==
    /\ pc = "done"
    /\ Len(output_file) = 2
    /\ output_file = all_mammal_species

=============================================================================
